---- MODULE Spec2Model ----
(***************************************************************************)
(* Model of scope.py, the NetCDF classic header decoder of purenetcdf.     *)
(*                                                                         *)
(* The byte source `inp` is a sequence of bytes (0..255) with a read       *)
(* offset `pos`.  Every decoding function of scope.py that only reads the  *)
(* stream is an operator taking the offset it starts at and returning      *)
(*    [err |-> "none" or the Python exception raised, val |-> the value    *)
(*     returned, pos |-> the offset the stream is left at].                *)
(* The five functions header() calls in turn mutate the dictionary `p`;    *)
(* they are the actions of the specification Spec.  SpecName and           *)
(* SpecValues apply name() and values() alone to bounded inputs.           *)
(***************************************************************************)
EXTENDS Integers, Sequences, FiniteSets, TLC

VARIABLES inp, pos, pc, p, err, stdout, args, ret

vars == <<inp, pos, pc, p, err, stdout, args, ret>>

(* ------------------------------ bounds -------------------------------- *)
MaxNameLen == 5     \* longest declared name length in Spec's dimension names
MaxDims == 2        \* most dimensions in a dimension list
MaxAtts == 1        \* most attributes in an attribute list
MaxVars == 1        \* most variables in a variable list
MaxCount == 3       \* largest nelems handed to values()
MaxL == 3           \* largest declared length handed to name() in SpecName

(* --------------------------- byte helpers ----------------------------- *)
Min(a, b) == IF a < b THEN a ELSE b

Zeros(n) == [i \in 1..n |-> 0]

Fill(n, b) == [i \in 1..n |-> b]

\* two's-complement big-endian encoding, the inverse of struct.unpack('>i')
BE32(n) == << (n \div 16777216) % 256, (n \div 65536) % 256,
              (n \div 256) % 256, n % 256 >>

\* inp.read(n) at offset o: at most n bytes, fewer at end of file
read(o, n) == SubSeq(inp, o + 1, IF n > Len(inp) - o THEN Len(inp) ELSE o + n)

\* the offset after inp.read(n) at offset o
tell(o, n) == IF n > Len(inp) - o THEN Len(inp) ELSE o + n

Raise(kind, o) == [err |-> kind, val |-> <<>>, pos |-> o]

Return(v, o) == [err |-> "none", val |-> v, pos |-> o]

\* struct.unpack('>i', b) for a 4-byte b: signed 32-bit big-endian
unpack_i(b) ==
    (IF b[1] >= 128 THEN b[1] - 256 ELSE b[1]) * 16777216
        + b[2] * 65536 + b[3] * 256 + b[4]

\* struct.unpack('>h', b) for a 2-byte b
unpack_h(b) == (IF b[1] >= 128 THEN b[1] - 256 ELSE b[1]) * 256 + b[2]

\* struct.unpack('>b', b) for a 1-byte b
unpack_b(b) == IF b[1] >= 128 THEN b[1] - 256 ELSE b[1]

(* ------------------------- str(bytes, 'utf-8') ------------------------ *)
IsCont(b) == b >= 128 /\ b <= 191

\* Number of bytes of the UTF-8 sequence starting at bs[i], 0 when the
\* bytes at i are not a well-formed sequence (stray continuation byte,
\* overlong form, surrogate, value above U+10FFFF, or sequence cut short).
utf8_seqlen(bs, i) ==
    LET b0 == bs[i]
        n  == Len(bs)
        c(k) == i + k <= n /\ IsCont(bs[i + k])
    IN  IF b0 < 128 THEN 1
        ELSE IF b0 >= 194 /\ b0 <= 223
             THEN IF c(1) THEN 2 ELSE 0
        ELSE IF b0 >= 224 /\ b0 <= 239
             THEN IF c(1) /\ c(2)
                     /\ (b0 = 224 => bs[i + 1] >= 160)
                     /\ (b0 = 237 => bs[i + 1] <= 159)
                  THEN 3 ELSE 0
        ELSE IF b0 >= 240 /\ b0 <= 244
             THEN IF c(1) /\ c(2) /\ c(3)
                     /\ (b0 = 240 => bs[i + 1] >= 144)
                     /\ (b0 = 244 => bs[i + 1] <= 143)
                  THEN 4 ELSE 0
        ELSE 0

\* The code point of the well-formed k-byte sequence at bs[i]
utf8_codepoint(bs, i, k) ==
    IF k = 1 THEN bs[i]
    ELSE IF k = 2 THEN (bs[i] - 192) * 64 + (bs[i + 1] - 128)
    ELSE IF k = 3 THEN (bs[i] - 224) * 4096 + (bs[i + 1] - 128) * 64
                        + (bs[i + 2] - 128)
    ELSE (bs[i] - 240) * 262144 + (bs[i + 1] - 128) * 4096
            + (bs[i + 2] - 128) * 64 + (bs[i + 3] - 128)

RECURSIVE utf8_from(_, _, _)
\* [ok, text]: text followed by the code points decoded from bs[i..]
utf8_from(bs, i, text) ==
    IF i > Len(bs) THEN [ok |-> TRUE, text |-> text]
    ELSE IF utf8_seqlen(bs, i) = 0 THEN [ok |-> FALSE, text |-> <<>>]
    ELSE utf8_from(bs, i + utf8_seqlen(bs, i),
                   Append(text, utf8_codepoint(bs, i, utf8_seqlen(bs, i))))

\* str(bs, 'utf-8'): the text as a sequence of code points, or not ok
\* (UnicodeDecodeError)
str_utf8(bs) == utf8_from(bs, 1, <<>>)

\* The one element of a singleton set.  { e(r) : r \in {call} } binds r to
\* the result of a call, so that the call is evaluated once.
Only(S) == CHOOSE x \in S : TRUE

(* ------------------------ decoding primitives ------------------------- *)
\* non_neg(inp), lines 114-119
non_neg(o) ==
    LET b == read(o, 4)
        o1 == tell(o, 4)
    IN  IF Len(b) # 4 THEN Raise("struct.error", o1)
        ELSE IF unpack_i(b) < 0 THEN Raise("FormatError", o1)
        ELSE Return(unpack_i(b), o1)

\* nelems(inp), lines 111-112
nelems(o) == non_neg(o)

\* dim_length(inp), lines 182-187
dim_length(o) ==
    LET b == read(o, 4)
        o1 == tell(o, 4)
    IN  IF Len(b) # 4 THEN Raise("struct.error", o1)
        ELSE IF unpack_i(b) < 0 THEN Raise("FormatError", o1)
        ELSE Return(unpack_i(b), o1)

\* the type nc_type() returns for a valid code, lines 127-138
nc_type_name(x) ==
    IF x = 1 THEN "byte"
    ELSE IF x = 2 THEN "char"
    ELSE IF x = 3 THEN "short"
    ELSE IF x = 4 THEN "int"
    ELSE IF x = 5 THEN "float"
    ELSE "double"

\* nc_type(inp), lines 122-138
nc_type(o) ==
    LET b == read(o, 4)
        o1 == tell(o, 4)
        x == unpack_i(b)
    IN  IF Len(b) # 4 THEN Raise("struct.error", o1)
        ELSE IF x \notin {1, 2, 3, 4, 5, 6} THEN Raise("FormatError", o1)
        ELSE Return(nc_type_name(x), o1)

\* the storage width values() selects for a type, lines 141-158
width(type) ==
    IF type = "byte" THEN 1
    ELSE IF type = "char" THEN 1
    ELSE IF type = "short" THEN 2
    ELSE IF type = "int" THEN 4
    ELSE IF type = "float" THEN 4
    ELSE 8

\* one element of struct.unpack('>{n}{f}', b): element i of width l.
\* float and double elements are kept as their IEEE-754 bit pattern
\* (the bytes), which determines the Python float.
element(type, b, i) ==
    LET l == width(type)
        e == SubSeq(b, (i - 1) * l + 1, i * l)
    IN  IF type = "byte" THEN unpack_b(e)
        ELSE IF type = "short" THEN unpack_h(e)
        ELSE IF type = "int" THEN unpack_i(e)
        ELSE e

\* vs[:nelems]
head_slice(vs, n) == SubSeq(vs, 1, Min(n, Len(vs)))

\* values() returning every unpacked element, padding included
values_noslice(o, type, n) ==
    LET l == width(type)
        length == n * l
        padded_length == 4 * ((length + 3) \div 4)
        cnt == padded_length \div l
        b == read(o, padded_length)
        o1 == tell(o, padded_length)
    IN  IF Len(b) # padded_length THEN Raise("struct.error", o1)
        ELSE IF type = "char" THEN Return(b, o1)
        ELSE Return([i \in 1..cnt |-> element(type, b, i)], o1)

\* values(inp, type, nelems), lines 140-167
values(o, type, n) ==
    LET l == width(type)
        length == n * l
        padded_length == 4 * ((length + 3) \div 4)
        cnt == padded_length \div l
        b == read(o, padded_length)
        o1 == tell(o, padded_length)
    IN  IF Len(b) # padded_length THEN Raise("struct.error", o1)
        ELSE IF type = "char" THEN Return(head_slice(b, n), o1)
        ELSE Return(head_slice([i \in 1..cnt |-> element(type, b, i)], n), o1)

\* name() reading the declared length only, not the padded span
name_unpadded(o) ==
    LET b == read(o, 4)
        o1 == tell(o, 4)
        n == unpack_i(b)
        padded_name == read(o1, n)
        o2 == tell(o1, n)
        text == str_utf8(SubSeq(padded_name, 1, Min(n, Len(padded_name))))
    IN  IF Len(b) # 4 THEN Raise("struct.error", o1)
        ELSE IF n < 0 THEN Raise("FormatError", o1)
        ELSE IF ~text.ok THEN Raise("UnicodeDecodeError", o2)
        ELSE Return(text.text, o2)

\* name(inp), lines 169-180
name(o) ==
    LET b == read(o, 4)
        o1 == tell(o, 4)
        n == unpack_i(b)
        padded == 4 * ((n + 3) \div 4)
        padded_name == read(o1, padded)
        o2 == tell(o1, padded)
        text == str_utf8(SubSeq(padded_name, 1, Min(n, Len(padded_name))))
        padding == SubSeq(padded_name, n + 1, Len(padded_name))
    IN  IF Len(b) # 4 THEN Raise("struct.error", o1)
        ELSE IF n < 0 THEN Raise("FormatError", o1)
        ELSE IF ~text.ok THEN Raise("UnicodeDecodeError", o2)
        ELSE IF padding # Zeros(Len(padding)) THEN Raise("FormatError", o2)
        ELSE Return(text.text, o2)

\* dim(inp), lines 58-59
dim(o) ==
    Only({ IF nm.err # "none" THEN nm
           ELSE Only({ IF dl.err # "none" THEN dl
                       ELSE Return(<<nm.val, dl.val>>, dl.pos) :
                       dl \in {dim_length(nm.pos)} }) :
           nm \in {name(o)} })

RECURSIVE dim_items(_, _, _)
\* [dim(inp) for i in range(n)], line 56; done holds the items built so far
dim_items(o, n, done) ==
    IF n = 0 THEN Return(done, o)
    ELSE Only({ IF d.err # "none" THEN d
                ELSE dim_items(d.pos, n - 1, Append(done, d.val)) :
                d \in {dim(o)} })

\* attr(inp), lines 78-83
attr(o) ==
    Only({ IF nm.err # "none" THEN nm ELSE
      Only({ IF ty.err # "none" THEN ty ELSE
        Only({ IF n.err # "none" THEN n ELSE
          Only({ IF vs.err # "none" THEN vs
                 ELSE Return(<<nm.val, vs.val>>, vs.pos) :
                 vs \in {values(n.pos, ty.val, n.val)} }) :
          n \in {nelems(ty.pos)} }) :
        ty \in {nc_type(nm.pos)} }) :
      nm \in {name(o)} })

RECURSIVE attr_items(_, _, _)
\* [attr(inp) for i in range(n)], line 76
attr_items(o, n, done) ==
    IF n = 0 THEN Return(done, o)
    ELSE Only({ IF a.err # "none" THEN a
                ELSE attr_items(a.pos, n - 1, Append(done, a.val)) :
                a \in {attr(o)} })

\* att_list() taking a zero tag as ABSENT without looking at the count
att_list_nocheck(o) ==
    LET attribute == read(o, 4)
        o1 == tell(o, 4)
        o2 == tell(o1, 4)
    IN  IF attribute = <<0, 0, 0, 0>> THEN Raise("NameError", o2)
        ELSE IF attribute # <<0, 0, 0, 12>> THEN Raise("FormatError", o1)
        ELSE Only({ IF n.err # "none" THEN n
                    ELSE attr_items(n.pos, n.val, <<>>) :
                    n \in {nelems(o1)} })

\* att_list(inp), lines 64-76.  The ABSENT branch assigns to p, a name
\* that is neither a parameter nor a global of att_list: NameError.
att_list(o) ==
    LET attribute == read(o, 4)
        o1 == tell(o, 4)
        nb == read(o1, 4)
        o2 == tell(o1, 4)
    IN  IF attribute = <<0, 0, 0, 0>>
        THEN IF nb # <<0, 0, 0, 0>> THEN Raise("FormatError", o2)
             ELSE Raise("NameError", o2)
        ELSE IF attribute # <<0, 0, 0, 12>> THEN Raise("FormatError", o1)
        ELSE Only({ IF n.err # "none" THEN n
                    ELSE attr_items(n.pos, n.val, <<>>) :
                    n \in {nelems(o1)} })

RECURSIVE non_neg_items(_, _, _)
\* [non_neg(inp) for i in range(n)], line 103
non_neg_items(o, n, done) ==
    IF n = 0 THEN Return(done, o)
    ELSE Only({ IF d.err # "none" THEN d
                ELSE non_neg_items(d.pos, n - 1, Append(done, d.val)) :
                d \in {non_neg(o)} })

\* var(inp), lines 100-109
var(o) ==
    Only({ IF var_name.err # "none" THEN var_name ELSE
      Only({ IF n.err # "none" THEN n ELSE
        Only({ IF dimensions.err # "none" THEN dimensions ELSE
          Only({ IF var_attr.err # "none" THEN var_attr ELSE
            Only({ IF type.err # "none" THEN type ELSE
              Only({ IF vsize.err # "none" THEN vsize ELSE
                Only({ IF begin.err # "none" THEN begin
                       ELSE Return(<<var_name.val, var_attr.val, vsize.val,
                                     begin.val>>, begin.pos) :
                       begin \in {non_neg(vsize.pos)} }) :
                vsize \in {non_neg(type.pos)} }) :
              type \in {nc_type(var_attr.pos)} }) :
            var_attr \in {att_list(dimensions.pos)} }) :
          dimensions \in {non_neg_items(n.pos, n.val, <<>>)} }) :
        n \in {nelems(var_name.pos)} }) :
      var_name \in {name(o)} })

RECURSIVE var_items(_, _, _)
\* [var(inp) for i in range(n)], line 98
var_items(o, n, done) ==
    IF n = 0 THEN Return(done, o)
    ELSE Only({ IF v.err # "none" THEN v
                ELSE var_items(v.pos, n - 1, Append(done, v.val)) :
                v \in {var(o)} })

(* ------------------------- the header steps --------------------------- *)
\* The value stored for a list section: the string 'absent' or a Python
\* list; the flag keeps the two apart.
Absent == [absent |-> TRUE, items |-> <<>>]

Present(items) == [absent |-> FALSE, items |-> items]

\* p[key] = value on the dictionary p
setitem(d, key, value) == (key :> value) @@ d

\* header() calling var_list() right after dim_list()
after_skip(step) ==
    IF step = "magic" THEN "numrecs"
    ELSE IF step = "numrecs" THEN "dim_list"
    ELSE IF step = "dim_list" THEN "var_list"
    ELSE IF step = "gatt_list" THEN "var_list"
    ELSE "pprint"

\* header(p, inp), lines 16-21: the step that follows a step that returned
after(step) ==
    IF step = "magic" THEN "numrecs"
    ELSE IF step = "numrecs" THEN "dim_list"
    ELSE IF step = "dim_list" THEN "gatt_list"
    ELSE IF step = "gatt_list" THEN "var_list"
    ELSE "pprint"

\* An exception leaves header() and parse(): the stream stays where the
\* last read left it and nothing more runs.
raise(kind, o) ==
    /\ err' = kind
    /\ pos' = o
    /\ UNCHANGED <<inp, pc, p, stdout, args, ret>>

\* magic(p, inp), lines 23-30
magic ==
    /\ pc = "magic" /\ err = "none"
    /\ LET b == read(pos, 4)
           o1 == tell(pos, 4)
       IN  IF ~(Len(b) >= 3 /\ SubSeq(b, 1, 3) = <<67, 68, 70>>)
           THEN raise("FormatError", o1)
           ELSE IF Len(b) < 4 THEN raise("IndexError", o1)
           ELSE IF b[4] \notin {1, 2} THEN raise("FormatError", o1)
           ELSE /\ p' = setitem(p, "version", b[4])
                /\ pos' = o1
                /\ pc' = after("magic")
                /\ UNCHANGED <<inp, err, stdout, args, ret>>

\* numrecs(p, inp), lines 32-41.  Line 36 formats the message with the
\* replacement field {%d}, which str.format looks up as a keyword: KeyError.
\* Line 38 sets an attribute on the dict p: AttributeError.
numrecs ==
    /\ pc = "numrecs" /\ err = "none"
    /\ LET b == read(pos, 4)
           o1 == tell(pos, 4)
       IN  IF Len(b) # 4 THEN raise("struct.error", o1)
           ELSE IF unpack_i(b) < -1 THEN raise("KeyError", o1)
           ELSE IF unpack_i(b) = -1 THEN raise("AttributeError", o1)
           ELSE /\ p' = setitem(p, "numrecs", unpack_i(b))
                /\ pos' = o1
                /\ pc' = after("numrecs")
                /\ UNCHANGED <<inp, err, stdout, args, ret>>

\* dim_list(p, inp), lines 43-56
dim_list ==
    /\ pc = "dim_list" /\ err = "none"
    /\ LET dimension == read(pos, 4)
           o1 == tell(pos, 4)
           nb == read(o1, 4)
           o2 == tell(o1, 4)
       IN  IF dimension = <<0, 0, 0, 0>>
           THEN IF nb # <<0, 0, 0, 0>> THEN raise("FormatError", o2)
                ELSE /\ p' = setitem(p, "dim_list", Absent)
                     /\ pos' = o2
                     /\ pc' = after("dim_list")
                     /\ UNCHANGED <<inp, err, stdout, args, ret>>
           ELSE IF dimension # <<0, 0, 0, 10>> THEN raise("FormatError", o1)
           ELSE \E n \in {nelems(o1)} :
                IF n.err # "none" THEN raise(n.err, n.pos)
                ELSE \E ds \in {dim_items(n.pos, n.val, <<>>)} :
                     IF ds.err # "none" THEN raise(ds.err, ds.pos)
                     ELSE /\ p' = setitem(p, "dim_list", Present(ds.val))
                          /\ pos' = ds.pos
                          /\ pc' = after("dim_list")
                          /\ UNCHANGED <<inp, err, stdout, args, ret>>

\* gatt_list(p, inp), lines 61-62
gatt_list ==
    /\ pc = "gatt_list" /\ err = "none"
    /\ \E r \in {att_list(pos)} :
           IF r.err # "none" THEN raise(r.err, r.pos)
           ELSE /\ p' = setitem(p, "gatt_list", Present(r.val))
                /\ pos' = r.pos
                /\ pc' = after("gatt_list")
                /\ UNCHANGED <<inp, err, stdout, args, ret>>

\* var_list(p, inp), lines 85-98.  Line 95 formats the message with
\* `attribute`, a name var_list never binds: NameError.  Line 97 prints the
\* variable count and offset before any variable is decoded.
var_list ==
    /\ pc = "var_list" /\ err = "none"
    /\ LET b == read(pos, 4)
           o1 == tell(pos, 4)
           nb == read(o1, 4)
           o2 == tell(o1, 4)
       IN  IF b = <<0, 0, 0, 0>>
           THEN IF nb # <<0, 0, 0, 0>> THEN raise("FormatError", o2)
                ELSE /\ p' = setitem(p, "var_list", Absent)
                     /\ pos' = o2
                     /\ pc' = after("var_list")
                     /\ UNCHANGED <<inp, err, stdout, args, ret>>
           ELSE IF b # <<0, 0, 0, 11>> THEN raise("NameError", o1)
           ELSE \E n \in {nelems(o1)} :
                IF n.err # "none" THEN raise(n.err, n.pos)
                ELSE \E vs \in {var_items(n.pos, n.val, <<>>)} :
                     /\ stdout' = Append(stdout, [line |-> "vars",
                                                  n |-> n.val, at |-> n.pos])
                     /\ pos' = vs.pos
                     /\ IF vs.err # "none"
                        THEN /\ err' = vs.err
                             /\ UNCHANGED <<inp, pc, p, args, ret>>
                        ELSE /\ p' = setitem(p, "var_list", Present(vs.val))
                             /\ pc' = after("var_list")
                             /\ UNCHANGED <<inp, err, args, ret>>

\* parse(filename), line 14: pprint.pprint(p) once header() has returned
pprint ==
    /\ pc = "pprint" /\ err = "none"
    /\ stdout' = Append(stdout, [line |-> "header", p |-> p])
    /\ pc' = "return"
    /\ UNCHANGED <<inp, pos, p, err, args, ret>>

(* ------------------- name() and values() on their own ----------------- *)
call_name ==
    /\ pc = "name" /\ err = "none"
    /\ \E r \in {name(pos)} :
           /\ err' = r.err
           /\ pos' = r.pos
           /\ ret' = r.val
           /\ pc' = IF r.err = "none" THEN "return" ELSE pc
    /\ UNCHANGED <<inp, p, stdout, args>>

call_values ==
    /\ pc = "values" /\ err = "none"
    /\ \E r \in {values(pos, args[1], args[2])} :
           /\ err' = r.err
           /\ pos' = r.pos
           /\ ret' = r.val
           /\ pc' = IF r.err = "none" THEN "return" ELSE pc
    /\ UNCHANGED <<inp, p, stdout, args>>

(* ------------------------------ inputs -------------------------------- *)
Pad4(n) == 4 * ((n + 3) \div 4)

RECURSIVE Concat(_)
\* the concatenation of a sequence of byte strings
Concat(ss) == IF ss = <<>> THEN <<>> ELSE Head(ss) \o Concat(Tail(ss))

\* the sequences of at most n elements of S
SeqsUpTo(S, n) == UNION {[1..k -> S] : k \in 0..n}

Prefixes(s) == {SubSeq(s, 1, k) : k \in 0..Len(s)}

CDF == <<67, 68, 70>>
ABSENT == BE32(0) \o BE32(0)
NC_DIMENSION == BE32(10)
NC_VARIABLE == BE32(11)
NC_ATTRIBUTE == BE32(12)

\* a well-formed name field: L bytes 'x', zero padding
GoodName(L) == BE32(L) \o Fill(L, 120) \o Zeros(Pad4(L) - L)

\* dimension entries: well-formed ones, a two-byte UTF-8 name, and one of
\* each malformation
DimElems ==
    {GoodName(L) \o BE32(5) : L \in 0..MaxNameLen}
      \cup { GoodName(1) \o BE32(0),                     \* record dimension
             BE32(2) \o <<195, 169, 0, 0>> \o BE32(5),   \* U+00E9
             BE32(1) \o <<120, 0, 1, 0>> \o BE32(5),     \* non-zero padding
             BE32(1) \o <<195, 0, 0, 0>> \o BE32(5),     \* not UTF-8
             BE32(-1) \o BE32(5),                        \* negative length
             GoodName(1) \o BE32(-1) }                   \* negative dim_length

DimLists ==
    {ABSENT, BE32(0) \o BE32(1), BE32(0) \o <<0, 0>>, NC_VARIABLE \o BE32(0),
     BE32(9) \o BE32(0), NC_DIMENSION \o BE32(-1), NC_DIMENSION \o BE32(1)}
      \cup {NC_DIMENSION \o BE32(Len(ds)) \o Concat(ds) :
                ds \in SeqsUpTo(DimElems, MaxDims)}

\* an attribute field: name "x", type code t, count n, data bytes 1 and
\* padding bytes f
AttrField(t, n, f) ==
    LET w == width(nc_type_name(t))
    IN  GoodName(1) \o BE32(t) \o BE32(n) \o Fill(n * w, 1)
            \o Fill(Pad4(n * w) - n * w, f)

AttrElems ==
    {AttrField(t, n, f) : t \in 1..6, n \in {0, 1, 3}, f \in {0, 255}}
      \cup { GoodName(1) \o BE32(7) \o BE32(0),
             GoodName(1) \o BE32(1) \o BE32(-1),
             GoodName(1) \o BE32(1) \o BE32(2) \o <<1, 1>> }

AttLists ==
    {ABSENT, BE32(0) \o BE32(1), BE32(0) \o <<0, 0>>, NC_VARIABLE \o BE32(0),
     NC_DIMENSION \o BE32(0), NC_ATTRIBUTE \o BE32(-1),
     NC_ATTRIBUTE \o BE32(1)}
      \cup {NC_ATTRIBUTE \o BE32(Len(as)) \o Concat(as) :
                as \in SeqsUpTo(AttrElems, MaxAtts)}

\* a variable field: name "x", dimension ids, attribute list, type code,
\* vsize 4, begin
VarField(ids, al, t, b) ==
    GoodName(1) \o BE32(Len(ids)) \o Concat(ids) \o al \o BE32(t)
        \o BE32(4) \o BE32(b)

\* one well-formed variable and its variants in one field at a time
VarElems ==
    {VarField(ids, NC_ATTRIBUTE \o BE32(0), 4, 100) :
        ids \in {<<>>, <<BE32(0)>>, <<BE32(1)>>, <<BE32(0), BE32(-1)>>}}
      \cup {VarField(<<BE32(0)>>, al, 4, 100) :
              al \in {ABSENT, BE32(0) \o BE32(1), NC_DIMENSION \o BE32(0),
                      NC_ATTRIBUTE \o BE32(1) \o AttrField(2, 3, 0)}}
      \cup {VarField(<<BE32(0)>>, NC_ATTRIBUTE \o BE32(0), 7, 100),
            VarField(<<BE32(0)>>, NC_ATTRIBUTE \o BE32(0), 4, -1)}

VarLists ==
    {ABSENT, BE32(0) \o BE32(1), BE32(0) \o <<0, 0>>, NC_DIMENSION \o BE32(0),
     NC_ATTRIBUTE \o BE32(0), NC_VARIABLE \o BE32(-1), NC_VARIABLE \o BE32(1)}
      \cup {NC_VARIABLE \o BE32(Len(vs)) \o Concat(vs) :
                vs \in SeqsUpTo(VarElems, MaxVars)}

Magics == {CDF \o <<1>>, CDF \o <<2>>, CDF \o <<3>>, CDF \o <<0>>,
           <<67, 68, 88, 1>>, <<99, 100, 102, 1>>}

NumrecsFields == {BE32(0), BE32(1), BE32(-1), BE32(-2),
                  <<127, 255, 255, 255>>, <<128, 0, 0, 0>>}

Heads == {CDF \o <<1>> \o BE32(0), CDF \o <<2>> \o BE32(1)}

DCore == {ABSENT, NC_DIMENSION \o BE32(1) \o GoodName(1) \o BE32(5)}
GCore == {ABSENT, NC_ATTRIBUTE \o BE32(0)}

\* a complete header with one dimension, one attribute and one variable
Rich ==
    CDF \o <<1>> \o BE32(2)
      \o NC_DIMENSION \o BE32(1) \o GoodName(1) \o BE32(5)
      \o NC_ATTRIBUTE \o BE32(1) \o AttrField(3, 3, 0)
      \o NC_VARIABLE \o BE32(1) \o GoodName(1) \o BE32(1) \o BE32(0)
      \o NC_ATTRIBUTE \o BE32(1) \o AttrField(2, 3, 0)
      \o BE32(4) \o BE32(4) \o BE32(100)

\* The files Spec decodes: each section in turn ranges over its variants
\* while the others range over a few; every truncation of Rich.
Inputs ==
    {m \o r \o d \o g \o v :
        m \in Magics, r \in NumrecsFields, d \in {ABSENT}, g \in GCore,
        v \in {ABSENT}}
      \cup {h \o d \o g \o v :
              h \in Heads, d \in DimLists, g \in GCore, v \in {ABSENT}}
      \cup {h \o d \o g \o v :
              h \in Heads, d \in DCore, g \in AttLists, v \in {ABSENT}}
      \cup {h \o d \o g \o v :
              h \in Heads, d \in DCore, g \in GCore, v \in VarLists}
      \cup Prefixes(Rich)

(* --------------------------- specifications --------------------------- *)
\* parse(filename), lines 10-14: an empty dictionary, the file opened at
\* offset 0, header() about to call magic()
Init ==
    /\ inp \in Inputs
    /\ pos = 0
    /\ pc = "magic"
    /\ p = <<>>
    /\ err = "none"
    /\ stdout = <<>>
    /\ args = <<>>
    /\ ret = <<>>

Next == magic \/ numrecs \/ dim_list \/ gatt_list \/ var_list \/ pprint

Spec == Init /\ [][Next]_vars

\* ---- name() alone ----
NameBytes == {0, 120, 195, 169}

\* a length field, complete or cut short, then at most the padded span
NameInputs ==
    UNION {{BE32(L) \o b : b \in SeqsUpTo(NameBytes, Pad4(L))} : L \in -1..MaxL}
      \cup Prefixes(BE32(1))

InitName ==
    /\ inp \in NameInputs
    /\ pos = 0
    /\ pc = "name"
    /\ p = <<>>
    /\ err = "none"
    /\ stdout = <<>>
    /\ args = <<>>
    /\ ret = <<>>

NextName == call_name

SpecName == InitName /\ [][NextName]_vars

\* ---- values() alone ----
Types == {"byte", "char", "short", "int", "float", "double"}

\* n elements of data bytes d, every padding over {0, 255}, and every
\* truncation of the zero-padded array
ValueInputs(type, n) ==
    LET raw == n * width(type)
    IN  {Fill(raw, d) \o pad :
            d \in {1, 255}, pad \in [1..(Pad4(raw) - raw) -> {0, 255}]}
          \cup Prefixes(Fill(raw, 1) \o Zeros(Pad4(raw) - raw))

InitValues ==
    /\ args \in Types \X (0..MaxCount)
    /\ inp \in ValueInputs(args[1], args[2])
    /\ pos = 0
    /\ pc = "values"
    /\ p = <<>>
    /\ err = "none"
    /\ stdout = <<>>
    /\ ret = <<>>

NextValues == call_values

SpecValues == InitValues /\ [][NextValues]_vars

(* ------------------------------ properties ---------------------------- *)
\* the signed 32-bit field at offset o, when all four bytes are there
HasField(o) == Len(inp) - o >= 4
Field(o) == unpack_i(SubSeq(inp, o + 1, o + 4))

ListSteps == {"dim_list", "gatt_list", "var_list"}

\* the list tag each list step expects
ExpectedTag(step) ==
    IF step = "dim_list" THEN 10 ELSE IF step = "gatt_list" THEN 12 ELSE 11

HeaderLines(out) == {i \in 1..Len(out) : out[i].line = "header"}

\* "CDF" 1, record count 0, three absent lists
AllAbsentFile == CDF \o <<1>> \o BE32(0) \o ABSENT \o ABSENT \o ABSENT

\* C1: the file "CDF" 1, record count 0, three absent lists decodes without
\* failure to version 1, record count 0 and three Absent lists; and whenever
\* a list step (dimension, global attribute, variable) meets tag 0, count 0
\* it succeeds, consumes the 8 bytes and records the list as Absent.
C1_AbsentListsAccepted ==
    [][ /\ (pc \in ListSteps /\ err = "none" /\ read(pos, 8) = ABSENT)
            => /\ err' = "none"
               /\ pos' = pos + 8
               /\ pc \in DOMAIN p'
               /\ p'[pc] = Absent
        /\ (inp = AllAbsentFile /\ err = "none")
            => /\ err' = "none"
               /\ (pc' = "pprint"
                     => p' = [version |-> 1, numrecs |-> 0,
                              dim_list |-> Absent, gatt_list |-> Absent,
                              var_list |-> Absent]) ]_vars

\* C2: a record-count field of -1 is accepted: numrecs() returns without
\* raising, the record count is recorded as streaming, and the dimension
\* list is decoded next.
C2_StreamingAccepted ==
    [][ (pc = "numrecs" /\ err = "none" /\ HasField(pos) /\ Field(pos) = -1)
            => /\ err' = "none"
               /\ pc' = "dim_list"
               /\ "numrecs" \in DOMAIN p'
               /\ p'.numrecs = "streaming" ]_vars

\* C3: a record-count field below -1 makes numrecs() raise FormatError and
\* no other exception.
C3_InvalidRecordCount ==
    [][ (pc = "numrecs" /\ err = "none" /\ HasField(pos) /\ Field(pos) < -1)
            => err' = "FormatError" ]_vars

\* the name field at offset 0 ends before its length field or its padded
\* span is complete
NameTruncated ==
    \/ ~HasField(0)
    \/ Field(0) >= 0 /\ Len(inp) < 4 + Pad4(Field(0))

\* C4: name() on a field cut short (in the length or in the padded span)
\* fails instead of returning a name built from fewer bytes than declared.
\* Any exception raised on the short read is taken as the truncation
\* failure.
C4_TruncatedNameFails ==
    [][ (pc = "name" /\ err = "none" /\ pos = 0 /\ NameTruncated)
            => err' # "none" ]_vars

\* the name field at offset 0 is complete and a byte of its span at index
\* >= L is not zero
NameBadPadding ==
    /\ HasField(0) /\ Field(0) >= 0
    /\ Len(inp) >= 4 + Pad4(Field(0))
    /\ \E i \in (Field(0) + 1)..Pad4(Field(0)) : inp[4 + i] # 0

\* C5: name() on a complete field with a non-zero padding byte raises
\* FormatError (wrong padding) whatever the first L bytes are, and returns a
\* name only when every padding byte is zero.
C5_BadPaddingFails ==
    [][ (pc = "name" /\ err = "none" /\ pos = 0 /\ NameBadPadding)
            => err' = "FormatError" ]_vars

\* C6: values(type, count) on a complete padded span returns without
\* raising, leaves the stream after the span, and returns exactly count
\* elements (for char the count bytes of the text, as one value), whatever
\* the padding bytes are.
C6_ValuesCount ==
    [][ (pc = "values" /\ err = "none"
         /\ Len(inp) - pos >= Pad4(args[2] * width(args[1])))
            => /\ err' = "none"
               /\ pc' = "return"
               /\ pos' = pos + Pad4(args[2] * width(args[1]))
               /\ Len(ret') = args[2]
               /\ (args[1] = "char"
                     => ret' = SubSeq(inp, pos + 1, pos + args[2])) ]_vars

\* values() has returned 3 shorts from a span whose 2 padding bytes are
\* not zero
C6_Witness ==
    /\ pc = "return" /\ err = "none"
    /\ args = <<"short", 3>>
    /\ Len(inp) = 8 /\ inp[7] # 0 /\ inp[8] # 0
    /\ Len(ret) = 3

\* C7: in each list step, and wherever an attribute list is decoded, tag 0
\* followed by a complete 4-byte count that is not 0 raises FormatError;
\* nothing is stored for the list.
C7_MalformedAbsentList ==
    [][ /\ (pc \in ListSteps /\ err = "none"
            /\ read(pos, 4) = BE32(0)
            /\ Len(read(pos + 4, 4)) = 4 /\ read(pos + 4, 4) # BE32(0))
            => /\ err' = "FormatError"
               /\ pc' = pc
               /\ p' = p
        /\ \A o \in 0..Len(inp) :
              (read(o, 4) = BE32(0)
               /\ Len(read(o + 4, 4)) = 4 /\ read(o + 4, 4) # BE32(0))
                 => att_list(o).err = "FormatError" ]_vars

\* the global attribute list step has failed with FormatError on tag 0
\* followed by a non-zero count
C7_Witness ==
    /\ pc = "gatt_list" /\ err = "FormatError"
    /\ pos >= 16
    /\ read(pos - 8, 4) = BE32(0)
    /\ Len(read(pos - 4, 4)) = 4 /\ read(pos - 4, 4) # BE32(0)
    /\ "gatt_list" \notin DOMAIN p

\* C8: in each list step a complete 4-byte tag that is neither 0 nor the
\* step's own tag raises FormatError with only the tag read.
C8_WrongListTag ==
    [][ (pc \in ListSteps /\ err = "none" /\ HasField(pos)
         /\ Field(pos) \notin {0, ExpectedTag(pc)})
            => /\ err' = "FormatError"
               /\ pos' = pos + 4
               /\ p' = p ]_vars

RECURSIVE DimsWellFormed(_, _)
\* n dimension entries lie at offset o, each with a complete non-negative
\* length field, a complete padded span with zero padding and UTF-8 text,
\* and a complete non-negative dimension length
DimsWellFormed(o, n) ==
    \/ n = 0
    \/ /\ HasField(o) /\ Field(o) >= 0
       /\ Len(inp) - (o + 4) >= Pad4(Field(o)) + 4
       /\ \A i \in (Field(o) + 1)..Pad4(Field(o)) : inp[o + 4 + i] = 0
       /\ str_utf8(SubSeq(inp, o + 5, o + 4 + Field(o))).ok
       /\ Field(o + 4 + Pad4(Field(o))) >= 0
       /\ DimsWellFormed(o + 8 + Pad4(Field(o)), n - 1)

RECURSIVE DimsBytes(_, _)
\* sum over the n entries at o of 4 + 4*ceil(L/4) + 4
DimsBytes(o, n) ==
    IF n = 0 THEN 0
    ELSE 8 + Pad4(Field(o)) + DimsBytes(o + 8 + Pad4(Field(o)), n - 1)

RECURSIVE DimsExpected(_, _)
\* the (name, length) pairs of the n entries at o, in stream order
DimsExpected(o, n) ==
    IF n = 0 THEN <<>>
    ELSE << << str_utf8(SubSeq(inp, o + 5, o + 4 + Field(o))).text,
               Field(o + 4 + Pad4(Field(o))) >> >>
           \o DimsExpected(o + 8 + Pad4(Field(o)), n - 1)

\* tag 0x0A, count 1, the dimension "x" of length 5
XDimList == NC_DIMENSION \o BE32(1) \o BE32(1) \o <<120, 0, 0, 0>> \o BE32(5)

\* C9: dim_list() on tag 0x0A, count n and n well-formed entries returns
\* the n (name, length) pairs in stream order and leaves the stream
\* 8 + sum of (4 + 4*ceil(L_i/4) + 4) bytes further; for the one dimension
\* "x" of length 5 the list is [("x", 5)] and the stream is 20 bytes further.
C9_DimensionList ==
    [][ /\ (pc = "dim_list" /\ err = "none"
            /\ read(pos, 4) = NC_DIMENSION
            /\ HasField(pos + 4) /\ Field(pos + 4) >= 0
            /\ DimsWellFormed(pos + 8, Field(pos + 4)))
            => /\ err' = "none"
               /\ pc' = "gatt_list"
               /\ p'.dim_list = Present(DimsExpected(pos + 8, Field(pos + 4)))
               /\ Len(p'.dim_list.items) = Field(pos + 4)
               /\ pos' = pos + 8 + DimsBytes(pos + 8, Field(pos + 4))
        /\ (pc = "dim_list" /\ err = "none" /\ read(pos, 20) = XDimList)
            => /\ p'.dim_list = Present(<< << <<120>>, 5 >> >>)
               /\ pos' = pos + 20 ]_vars

\* the dimension list step has returned two dimensions whose names have
\* different lengths, the first one padded
C9_Witness ==
    /\ pc = "gatt_list" /\ err = "none"
    /\ ~p.dim_list.absent
    /\ Len(p.dim_list.items) = 2
    /\ Len(p.dim_list.items[1][1]) = 1
    /\ Len(p.dim_list.items[2][1]) = 5
    /\ pos = 8 + 8 + 12 + 16

\* the order header() and parse() prescribe
StepOrder ==
    <<"magic", "numrecs", "dim_list", "gatt_list", "var_list", "pprint",
      "return">>

StepIndex(step) == CHOOSE i \in 1..Len(StepOrder) : StepOrder[i] = step

====
